-------------------------- MODULE Spec2Model --------------------------
(***************************************************************************)
(* The sysconfig network renderer of cloud-init (net/sysconfig.py):        *)
(* ConfigMap, Route, NetInterface and the passes of Renderer.              *)
(*                                                                         *)
(* Python strings are sequences of one-character strings, so that sorting, *)
(* substring tests, concatenation and slicing are computed as the code     *)
(* computes them.  A scalar Python value is a record [t, s]: its type tag  *)
(* and its str() text.  A dict whose keys are sorted on output (_conf) is  *)
(* a sequence of <<key, value>> pairs in insertion order.  The dicts of    *)
(* the network state (interfaces, subnets, routes) are records whose       *)
(* DOMAIN says which keys are present.                                     *)
(***************************************************************************)
EXTENDS Integers, Sequences, FiniteSets, TLC

\* Keys of the sysconfig vocabulary, as Python strings (sequences of characters).
k_DEVICE == <<"D", "E", "V", "I", "C", "E">>
k_TYPE == <<"T", "Y", "P", "E">>
k_ONBOOT == <<"O", "N", "B", "O", "O", "T">>
k_USERCTL == <<"U", "S", "E", "R", "C", "T", "L">>
k_BOOTPROTO == <<"B", "O", "O", "T", "P", "R", "O", "T", "O">>
k_HWADDR == <<"H", "W", "A", "D", "D", "R">>
k_MTU == <<"M", "T", "U">>
k_IPV6INIT == <<"I", "P", "V", "6", "I", "N", "I", "T">>
k_DHCPV6C == <<"D", "H", "C", "P", "V", "6", "C">>
k_IPADDR == <<"I", "P", "A", "D", "D", "R">>
k_NETMASK == <<"N", "E", "T", "M", "A", "S", "K">>
k_IPV6ADDR == <<"I", "P", "V", "6", "A", "D", "D", "R">>
k_IPV6ADDR_SECONDARIES ==
    <<"I", "P", "V", "6", "A", "D", "D", "R", "_", "S", "E", "C", "O", "N", "D", "A", "R", "I",
      "E", "S">>
k_DEFROUTE == <<"D", "E", "F", "R", "O", "U", "T", "E">>
k_GATEWAY == <<"G", "A", "T", "E", "W", "A", "Y">>
k_IPV6_DEFAULTGW == <<"I", "P", "V", "6", "_", "D", "E", "F", "A", "U", "L", "T", "G", "W">>
k_ADDRESS == <<"A", "D", "D", "R", "E", "S", "S">>
k_MASTER == <<"M", "A", "S", "T", "E", "R">>
k_SLAVE == <<"S", "L", "A", "V", "E">>
k_BONDING_MASTER == <<"B", "O", "N", "D", "I", "N", "G", "_", "M", "A", "S", "T", "E", "R">>
k_BONDING_OPTS == <<"B", "O", "N", "D", "I", "N", "G", "_", "O", "P", "T", "S">>
k_VLAN == <<"V", "L", "A", "N">>
k_PHYSDEV == <<"P", "H", "Y", "S", "D", "E", "V">>
k_BRIDGE == <<"B", "R", "I", "D", "G", "E">>
k_STP == <<"S", "T", "P">>
k_AGEING == <<"A", "G", "E", "I", "N", "G">>
k_PRIO == <<"P", "R", "I", "O">>

\* String literals of the source.
s_none == <<"n", "o", "n", "e">>
s_yes == <<"y", "e", "s">>
s_no == <<"n", "o">>
s_True == <<"T", "r", "u", "e">>
s_False == <<"F", "a", "l", "s", "e">>
s_Ethernet == <<"E", "t", "h", "e", "r", "n", "e", "t">>
s_Bond == <<"B", "o", "n", "d">>
s_Bridge == <<"B", "r", "i", "d", "g", "e">>
s_static == <<"s", "t", "a", "t", "i", "c">>
s_dhcp == <<"d", "h", "c", "p">>
s_dhcp4 == <<"d", "h", "c", "p", "4">>
s_dhcp6 == <<"d", "h", "c", "p", "6">>
s_zero4 == <<"0", ".", "0", ".", "0", ".", "0">>
s_zero6 == <<":", ":">>
s_via == <<" ", "v", "i", "a", " ">>
s_slash == <<"/">>
s_eq == <<"=">>
s_nl == <<"\n">>
s_space == <<" ">>
s_quote == <<"\"">>
s_hash == <<"#">>
s_semi == <<";">>
s_mode == <<"m", "o", "d", "e", "=">>
s_xmit_hash_policy ==
    <<"x", "m", "i", "t", "_", "h", "a", "s", "h", "_", "p", "o", "l", "i", "c", "y", "=">>
s_miimon == <<"m", "i", "i", "m", "o", "n", "=">>
s_ifcfg ==
    <<"/", "n", "e", "t", "w", "o", "r", "k", "-", "s", "c", "r", "i", "p", "t", "s", "/", "i",
      "f", "c", "f", "g", "-">>
s_route4 ==
    <<"/", "n", "e", "t", "w", "o", "r", "k", "-", "s", "c", "r", "i", "p", "t", "s", "/", "r",
      "o", "u", "t", "e", "-">>
s_route6 ==
    <<"/", "n", "e", "t", "w", "o", "r", "k", "-", "s", "c", "r", "i", "p", "t", "s", "/", "r",
      "o", "u", "t", "e", "6", "-">>
s_etc_sysconfig == <<"e", "t", "c", "/", "s", "y", "s", "c", "o", "n", "f", "i", "g">>
s_resolv == <<"e", "t", "c", "/", "r", "e", "s", "o", "l", "v", ".", "c", "o", "n", "f">>
s_netrules ==
    <<"e", "t", "c", "/", "u", "d", "e", "v", "/", "r", "u", "l", "e", "s", ".", "d", "/", "7",
      "0", "-", "p", "e", "r", "s", "i", "s", "t", "e", "n", "t", "-", "n", "e", "t", ".", "r",
      "u", "l", "e", "s">>
HeaderText ==
    <<"C", "r", "e", "a", "t", "e", "d", " ", "b", "y", " ", "c", "l", "o", "u", "d", "-", "i",
      "n", "i", "t", " ", "o", "n", " ", "i", "n", "s", "t", "a", "n", "c", "e", " ", "b", "o",
      "o", "t", " ", "a", "u", "t", "o", "m", "a", "t", "i", "c", "a", "l", "l", "y", ",", " ",
      "d", "o", " ", "n", "o", "t", " ", "e", "d", "i", "t", ".">>
\* Names, addresses and other strings of the network states explored.
n_eth0 == <<"e", "t", "h", "0">>
n_eth1 == <<"e", "t", "h", "1">>
n_eth2 == <<"e", "t", "h", "2">>
n_eth3 == <<"e", "t", "h", "3">>
n_eth4 == <<"e", "t", "h", "4">>
n_bond0 == <<"b", "o", "n", "d", "0">>
n_vlan_dot == <<"e", "t", "h", "0", ".", "1", "0", "0">>
n_vlan_nodot == <<"v", "l", "a", "n", "5">>
n_br0 == <<"b", "r", "0">>
n_br1 == <<"b", "r", "1">>
n_missing == <<"e", "t", "h", "9">>
a_v4a == <<"1", "0", ".", "0", ".", "0", ".", "5">>
a_v4b == <<"1", "0", ".", "0", ".", "0", ".", "6">>
a_v6a == <<"f", "d", "0", "0", ":", ":", "5">>
a_v6b == <<"f", "d", "0", "0", ":", ":", "6">>
a_mask24 == <<"2", "5", "5", ".", "2", "5", "5", ".", "2", "5", "5", ".", "0">>
a_mask16 == <<"2", "5", "5", ".", "2", "5", "5", ".", "0", ".", "0">>
a_mask8 == <<"2", "5", "5", ".", "0", ".", "0", ".", "0">>
a_net4a == <<"1", "0", ".", "1", ".", "0", ".", "0">>
a_net4b == <<"1", "0", ".", "2", ".", "0", ".", "0">>
a_net6 == <<"f", "d", "0", "1", ":", ":">>
a_gw4a == <<"1", "0", ".", "0", ".", "0", ".", "1">>
a_gw4b == <<"1", "0", ".", "0", ".", "0", ".", "2">>
a_gw6 == <<"f", "e", "8", "0", ":", ":", "1">>
a_mac == <<"f", "a", ":", "1", "6", ":", "3", "e", ":", "0", "0", ":", "0", "0", ":", "0", "1">>
a_8023ad == <<"8", "0", "2", ".", "3", "a", "d">>
a_layer2 == <<"l", "a", "y", "e", "r", "2">>
s_foo == <<"f", "o", "o">>
s_on == <<"o", "n">>
Target == <<"/", "t">>

\* The characters that occur, in ascending order of their code points.
Ascii ==
    <<"\n", " ", "\"", "#", ",", "-", ".", "/", "0", "1", "2", "3", "4", "5", "6", "7", "8",
      "9", ":", ";", "=", "A", "B", "C", "D", "E", "F", "G", "H", "I", "J", "K", "L", "M",
      "N", "O", "P", "Q", "R", "S", "T", "U", "V", "W", "X", "Y", "Z", "_", "a", "b", "c",
      "d", "e", "f", "g", "h", "i", "j", "k", "l", "m", "n", "o", "p", "q", "r", "s", "t",
      "u", "v", "w", "x", "y", "z">>

OrdTable == [c \in {Ascii[i] : i \in DOMAIN Ascii} |-> CHOOSE i \in DOMAIN Ascii : Ascii[i] = c]

Ord(c) == OrdTable[c]

\* Python's < on str: lexicographic by code point, a proper prefix is smaller.
RECURSIVE StrLess(_, _)
StrLess(a, b) ==
    IF b = <<>> THEN FALSE
    ELSE IF a = <<>> THEN TRUE
    ELSE IF a[1] = b[1] THEN StrLess(Tail(a), Tail(b))
    ELSE Ord(a[1]) < Ord(b[1])

\* Insertion of one key into a sorted list of keys.
RECURSIVE InsertSorted(_, _)
InsertSorted(k, ks) ==
    IF ks = <<>> THEN <<k>>
    ELSE IF StrLess(ks[1], k) THEN <<ks[1]>> \o InsertSorted(k, Tail(ks))
    ELSE <<k>> \o ks

\* sorted(keys)
RECURSIVE sorted(_)
sorted(ks) ==
    IF ks = <<>> THEN <<>> ELSE InsertSorted(ks[1], sorted(Tail(ks)))

\* sub in s
RECURSIVE Contains(_, _)
Contains(s, sub) ==
    IF Len(s) < Len(sub) THEN FALSE
    ELSE IF SubSeq(s, 1, Len(sub)) = sub THEN TRUE
    ELSE Contains(Tail(s), sub)

\* s.replace(old, new), old not empty
RECURSIVE Replace(_, _, _)
Replace(s, old, new) ==
    IF Len(s) < Len(old) THEN s
    ELSE IF SubSeq(s, 1, Len(old)) = old
         THEN new \o Replace(SubSeq(s, Len(old) + 1, Len(s)), old, new)
    ELSE <<s[1]>> \o Replace(Tail(s), old, new)

\* s.rfind(c) as a 0-based index, -1 when c does not occur
rfind(s, c) ==
    IF \E i \in 1..Len(s) : s[i] = c
    THEN (CHOOSE i \in 1..Len(s) : s[i] = c /\ \A j \in (i + 1)..Len(s) : s[j] # c) - 1
    ELSE -1

\* s[:n] for any integer n (a negative n counts from the end)
SliceTo(s, n) ==
    IF n >= 0 THEN SubSeq(s, 1, IF n < Len(s) THEN n ELSE Len(s))
    ELSE SubSeq(s, 1, IF Len(s) + n > 0 THEN Len(s) + n ELSE 0)

endswith(s, suf) ==
    Len(s) >= Len(suf) /\ SubSeq(s, Len(s) - Len(suf) + 1, Len(s)) = suf

startswith(s, pre) ==
    Len(s) >= Len(pre) /\ SubSeq(s, 1, Len(pre)) = pre

DigitChars == <<"0", "1", "2", "3", "4", "5", "6", "7", "8", "9">>

\* str(n) of an integer n >= 0
RECURSIVE DecStr(_)
DecStr(n) ==
    IF n < 10 THEN <<DigitChars[n + 1]>>
    ELSE DecStr(n \div 10) \o <<DigitChars[(n % 10) + 1]>>

\* Scalar Python values: the type and the text str() gives.
StrV(s) == [t |-> "str", s |-> s]
IntV(n) == [t |-> "int", s |-> DecStr(n)]
BoolV(b) == [t |-> "bool", s |-> IF b THEN s_True ELSE s_False]
None == [t |-> "none", s |-> <<"N", "o", "n", "e">>]

\* bool(v)
Truthy(v) ==
    CASE v.t = "bool" -> v.s = s_True
      [] v.t = "none" -> FALSE
      [] v.t = "int" -> v.s # <<"0">>
      [] OTHER -> v.s # <<>>

\* d.get(k) of a record-dict of the network state
DictGet(d, k) == IF k \in DOMAIN d THEN d[k] ELSE None

(***************************************************************************)
(* dict: a sequence of <<key, value>> pairs, keys unique, insertion order. *)
(***************************************************************************)
HasKey(d, k) == \E i \in DOMAIN d : d[i][1] = k

GetItem(d, k) == d[CHOOSE i \in DOMAIN d : d[i][1] = k][2]

Keys(d) == [i \in DOMAIN d |-> d[i][1]]

SetItem(d, k, v) ==
    IF HasKey(d, k)
    THEN [i \in DOMAIN d |-> IF d[i][1] = k THEN <<k, v>> ELSE d[i]]
    ELSE Append(d, <<k, v>>)

Pop(d, k) == SelectSeq(d, LAMBDA e : e[1] # k)

(***************************************************************************)
(* Module functions                                                        *)
(***************************************************************************)
_subnet_is_ipv6(subnet) ==
    IF endswith(subnet.type.s, <<"6">>) THEN TRUE
    ELSE IF subnet.type = StrV(s_static) /\ Contains(subnet.address.s, <<":">>) THEN TRUE
    ELSE FALSE

_make_header(sep) == sep \o s_space \o HeaderText \o s_nl \o sep

\* True, False, or "KeyError" when a key the test reads is missing
_is_default_route(route) ==
    IF "network" \notin DOMAIN route THEN "KeyError"
    ELSE IF route.network = StrV(s_zero6)
    THEN (IF "netmask" \notin DOMAIN route THEN "KeyError"
          ELSE IF route.netmask = IntV(0) THEN "True" ELSE "False")
    ELSE IF route.network = StrV(s_zero4)
    THEN (IF "netmask" \notin DOMAIN route THEN "KeyError"
          ELSE IF route.netmask = StrV(s_zero4) THEN "True" ELSE "False")
    ELSE "False"

Whitespace == {" ", "\n"}

_quote_value(value) ==
    IF \E i \in DOMAIN value : value[i] \in Whitespace
    THEN (IF startswith(value, s_quote) /\ endswith(value, s_quote)
          THEN value
          ELSE s_quote \o value \o s_quote)
    ELSE value

(***************************************************************************)
(* class ConfigMap                                                         *)
(***************************************************************************)
_bool_map(v) == IF v.s = s_True THEN s_yes ELSE s_no

\* What to_string writes for one value: bools by _bool_map, others by str()
ValueText(v) == IF v.t = "bool" THEN _bool_map(v) ELSE v.s

ConfigMap__init__ == <<>>

ConfigMap__setitem__(conf, key, value) == SetItem(conf, key, value)

ConfigMap_drop(conf, key) == Pop(conf, key)

ConfigMap__len__(conf) == Len(conf)

\* The keys as the dict holds them, unsorted.
KeyOrderOfInsertion(conf) == Keys(conf)

\* The keys in the order to_string walks them: sorted(self._conf.keys())
KeyOrder(conf) == sorted(Keys(conf))

RECURSIVE ConfigMapLines(_, _)
ConfigMapLines(conf, keys) ==
    IF keys = <<>> THEN <<>>
    ELSE keys[1] \o s_eq \o _quote_value(ValueText(GetItem(conf, keys[1]))) \o s_nl
         \o ConfigMapLines(conf, Tail(keys))

ConfigMap_to_string(conf) ==
    _make_header(s_hash)
    \o (IF ConfigMap__len__(conf) # 0 THEN s_nl ELSE <<>>)
    \o ConfigMapLines(conf, KeyOrder(conf))

(***************************************************************************)
(* class Route(ConfigMap)                                                  *)
(***************************************************************************)
Route__init__(route_name, base_sysconf_dir) ==
    [conf |-> ConfigMap__init__,
     last_idx |-> 1,
     has_set_default_ipv4 |-> FALSE,
     has_set_default_ipv6 |-> FALSE,
     route_name |-> route_name,
     base_sysconf_dir |-> base_sysconf_dir]

Route_copy(self) ==
    [Route__init__(self.route_name, self.base_sysconf_dir) EXCEPT
        !.conf = self.conf,
        !.last_idx = self.last_idx,
        !.has_set_default_ipv4 = self.has_set_default_ipv4,
        !.has_set_default_ipv6 = self.has_set_default_ipv6]

path_ipv4(self) == self.base_sysconf_dir \o s_route4 \o self.route_name

path_ipv6(self) == self.base_sysconf_dir \o s_route6 \o self.route_name

is_ipv6_route(address) == Contains(address, <<":">>)

\* A route table written whole to both files.
RouteSelectedAll(proto, address_value) == TRUE

\* Whether to_string(proto) writes the entry with this address
RouteSelected(proto, address_value) ==
    \/ proto = "ipv4" /\ ~is_ipv6_route(address_value)
    \/ proto = "ipv6" /\ is_ipv6_route(address_value)

\* The loop of Route.to_string over the sorted keys: [err, out, reindex].
RECURSIVE RouteLines(_, _, _, _)
RouteLines(conf, keys, proto, acc) ==
    IF keys = <<>> \/ acc.err # "none" THEN acc
    ELSE LET key == keys[1]
             rest == Tail(keys)
         IN
         IF ~Contains(key, k_ADDRESS) THEN RouteLines(conf, rest, proto, acc)
         ELSE LET index == Replace(key, k_ADDRESS, <<>>)
                  address_value == GetItem(conf, key).s
                  selected == RouteSelected(proto, address_value)
              IN
              IF ~selected THEN RouteLines(conf, rest, proto, acc)
              ELSE IF ~HasKey(conf, k_NETMASK \o index) \/ ~HasKey(conf, k_GATEWAY \o index)
              THEN [acc EXCEPT !.err = "KeyError"]
              ELSE LET netmask_value == GetItem(conf, k_NETMASK \o index).s
                       gateway_value == GetItem(conf, k_GATEWAY \o index).s
                   IN
                   IF proto = "ipv4"
                   THEN LET reindex == acc.reindex + 1
                        IN RouteLines(conf, rest, proto,
                              [acc EXCEPT
                                 !.reindex = reindex,
                                 !.out = @ \o k_ADDRESS \o DecStr(reindex) \o s_eq
                                           \o _quote_value(address_value) \o s_nl
                                           \o k_GATEWAY \o DecStr(reindex) \o s_eq
                                           \o _quote_value(gateway_value) \o s_nl
                                           \o k_NETMASK \o DecStr(reindex) \o s_eq
                                           \o _quote_value(netmask_value) \o s_nl])
                   ELSE RouteLines(conf, rest, proto,
                              [acc EXCEPT
                                 !.out = @ \o address_value \o s_slash \o netmask_value
                                           \o s_via \o gateway_value \o s_nl])

\* Route.to_string(proto): [err |-> "none", out |-> text] or an exception
Route_to_string(self, proto) ==
    IF proto \notin {"ipv4", "ipv6"} THEN [err |-> "ValueError", out |-> <<>>, reindex |-> -1]
    ELSE RouteLines(self.conf, KeyOrder(self.conf), proto,
            [err |-> "none",
             out |-> _make_header(s_hash)
                     \o (IF ConfigMap__len__(self.conf) # 0 THEN s_nl ELSE <<>>),
             reindex |-> -1])

(***************************************************************************)
(* class NetInterface(ConfigMap)                                           *)
(***************************************************************************)
iface_types == [ethernet |-> s_Ethernet, bond |-> s_Bond, bridge |-> s_Bridge]

\* iface_cfg[key] = value
CfgSet(cfg, key, value) == [cfg EXCEPT !.conf = ConfigMap__setitem__(@, key, value)]

\* A kind setter that forgets the TYPE field.
KindSetterNoType(self, kind) ==
    IF kind \notin DOMAIN iface_types THEN [err |-> "ValueError", cfg |-> self]
    ELSE [err |-> "none", cfg |-> [self EXCEPT !.kind = kind]]

\* The kind setter: [err, cfg], cfg unchanged when it raises
KindSetter(self, kind) ==
    IF kind \notin DOMAIN iface_types THEN [err |-> "ValueError", cfg |-> self]
    ELSE [err |-> "none",
          cfg |-> [CfgSet(self, k_TYPE, StrV(iface_types[kind])) EXCEPT !.kind = kind]]

\* The name setter
NameSetter(self, iface_name) ==
    [CfgSet(self, k_DEVICE, StrV(iface_name)) EXCEPT !.iface_name = iface_name]

\* NetInterface(iface_name, base_sysconf_dir, kind) for a kind of iface_types
NetInterface__init__(iface_name, base_sysconf_dir, kind) ==
    LET blank == [conf |-> ConfigMap__init__,
                  children |-> <<>>,
                  routes |-> Route__init__(iface_name, base_sysconf_dir),
                  kind |-> "",
                  iface_name |-> iface_name,
                  base_sysconf_dir |-> base_sysconf_dir]
    IN  CfgSet(KindSetter(blank, kind).cfg, k_DEVICE, StrV(iface_name))

NetInterface_path(self) == self.base_sysconf_dir \o s_ifcfg \o self.iface_name

NetInterface_copy(self, copy_children, copy_routes) ==
    LET c == NetInterface__init__(self.iface_name, self.base_sysconf_dir, self.kind)
    IN  [c EXCEPT !.conf = self.conf,
                  !.children = IF copy_children THEN self.children ELSE @,
                  !.routes = IF copy_routes THEN Route_copy(self.routes) ELSE @]

(***************************************************************************)
(* The network state handed to the renderer, and the renderer module's     *)
(* filters.                                                                *)
(***************************************************************************)
IfaceTypeNames == {"physical", "bond", "vlan", "bridge"}

\* A filter is the function from an interface's type to whether it is selected.
filter_by_type(match_type) == [iface_type \in IfaceTypeNames |-> match_type = iface_type]

filter_by_physical == filter_by_type("physical")

\* iter_interfaces() with no filter_func
NoFilter == [iface_type \in IfaceTypeNames |-> TRUE]

iter_interfaces(state, filter_func) ==
    SelectSeq(state.interfaces, LAMBDA iface : filter_func[iface.type])

(***************************************************************************)
(* class Renderer                                                          *)
(***************************************************************************)
iface_defaults ==
    << <<k_ONBOOT, BoolV(FALSE)>>, <<k_USERCTL, BoolV(FALSE)>>, <<k_BOOTPROTO, StrV(s_none)>> >>

\* (key, the key with "_" replaced by "-", template prefix)
bond_tpl_opts ==
    << <<"bond_mode", "bond-mode", s_mode>>,
       <<"bond_xmit_hash_policy", "bond-xmit-hash-policy", s_xmit_hash_policy>>,
       <<"bond_miimon", "bond-miimon", s_miimon>> >>

bridge_opts_keys ==
    << <<"bridge_stp", k_STP>>, <<"bridge_ageing", k_AGEING>>, <<"bridge_bridgeprio", k_PRIO>> >>

\* Renderer.__init__ with no config
sysconf_dir == s_etc_sysconfig
netrules_path == s_netrules
dns_path == s_resolv

\* os.path.join(a, b) for a relative b and an a that does not end in "/"
path_join(a, b) == a \o s_slash \o b

RECURSIVE SetAll(_, _)
SetAll(cfg, pairs) ==
    IF pairs = <<>> THEN cfg
    ELSE SetAll(CfgSet(cfg, pairs[1][1], pairs[1][2]), Tail(pairs))

_render_iface_shared(iface, iface_cfg) ==
    LET c0 == SetAll(iface_cfg, iface_defaults)
        c1 == IF DictGet(iface, "mac_address") # None
              THEN CfgSet(c0, k_HWADDR, iface.mac_address) ELSE c0
        c2 == IF DictGet(iface, "mtu") # None
              THEN CfgSet(c1, k_MTU, iface.mtu) ELSE c1
    IN  c2

\* First loop of _render_subnets: [err, cfg]
RECURSIVE SubnetTypesLoop(_, _)
SubnetTypesLoop(st, subnets) ==
    IF subnets = <<>> \/ st.err # "none" THEN st
    ELSE LET subnet == subnets[1]
             subnet_type == DictGet(subnet, "type")
             cfg == st.cfg
         IN
         IF subnet_type = StrV(s_dhcp6)
         THEN SubnetTypesLoop(
                 [st EXCEPT !.cfg = CfgSet(CfgSet(CfgSet(cfg, k_IPV6INIT, BoolV(TRUE)),
                                                  k_DHCPV6C, BoolV(TRUE)),
                                           k_BOOTPROTO, StrV(s_none))],
                 Tail(subnets))
         ELSE IF subnet_type \in {StrV(s_dhcp4), StrV(s_dhcp)}
         THEN SubnetTypesLoop([st EXCEPT !.cfg = CfgSet(cfg, k_BOOTPROTO, StrV(s_none))],
                              Tail(subnets))
         ELSE IF subnet_type = StrV(s_static)
         THEN SubnetTypesLoop(
                 [st EXCEPT !.cfg = IF _subnet_is_ipv6(subnet)
                                    THEN CfgSet(cfg, k_IPV6INIT, BoolV(TRUE)) ELSE cfg],
                 Tail(subnets))
         ELSE [st EXCEPT !.err = "ValueError"]

\* The IPv4 counter driven by the position in the subnet list.
Ipv4KeySuffixByPosition(ipv4_index, position) ==
    IF position = 0 THEN <<>> ELSE DecStr(position)

\* The suffix of IPADDR/NETMASK for the static IPv4 subnet counted ipv4_index,
\* found at 0-based position `position` of the subnet list
Ipv4KeySuffix(ipv4_index, position) ==
    IF ipv4_index = 0 THEN <<>> ELSE DecStr(ipv4_index)

\* IPV6ADDR_SECONDARIES appended to whenever it is already there.
SecondariesAlwaysAppended(conf, ipv6_index, ipv6_cidr) ==
    IF HasKey(conf, k_IPV6ADDR_SECONDARIES)
    THEN StrV(GetItem(conf, k_IPV6ADDR_SECONDARIES).s \o s_space \o ipv6_cidr.s)
    ELSE ipv6_cidr

\* The value IPV6ADDR_SECONDARIES gets from the static IPv6 subnet counted
\* ipv6_index >= 1
Secondaries(conf, ipv6_index, ipv6_cidr) ==
    IF ipv6_index = 1 THEN ipv6_cidr
    ELSE StrV(GetItem(conf, k_IPV6ADDR_SECONDARIES).s \o s_space \o ipv6_cidr.s)

\* Second loop of _render_subnets: [cfg, ipv4_index, ipv6_index, position]
RECURSIVE SubnetAddressLoop(_, _)
SubnetAddressLoop(st, subnets) ==
    IF subnets = <<>> THEN st
    ELSE LET subnet == subnets[1]
             subnet_type == DictGet(subnet, "type")
             cfg == st.cfg
             next == [st EXCEPT !.position = @ + 1]
         IN
         IF subnet_type # StrV(s_static) THEN SubnetAddressLoop(next, Tail(subnets))
         ELSE IF _subnet_is_ipv6(subnet)
         THEN LET ipv6_index == st.ipv6_index + 1
                  ipv6_cidr == IF "netmask" \in DOMAIN subnet /\ subnet.netmask.s # <<>>
                               THEN StrV(subnet.address.s \o s_slash \o subnet.netmask.s)
                               ELSE subnet.address
                  cfg2 == IF ipv6_index = 0
                          THEN CfgSet(cfg, k_IPV6ADDR, ipv6_cidr)
                          ELSE CfgSet(cfg, k_IPV6ADDR_SECONDARIES,
                                      Secondaries(cfg.conf, ipv6_index, ipv6_cidr))
              IN SubnetAddressLoop([next EXCEPT !.cfg = cfg2, !.ipv6_index = ipv6_index],
                                   Tail(subnets))
         ELSE LET ipv4_index == st.ipv4_index + 1
                  suffix == Ipv4KeySuffix(ipv4_index, st.position)
                  cfg1 == CfgSet(cfg, k_IPADDR \o suffix, subnet.address)
                  cfg2 == IF "netmask" \in DOMAIN subnet
                          THEN CfgSet(cfg1, k_NETMASK \o suffix, subnet.netmask) ELSE cfg1
              IN SubnetAddressLoop([next EXCEPT !.cfg = cfg2, !.ipv4_index = ipv4_index],
                                   Tail(subnets))

\* _render_subnets(iface_cfg, subnets): [err, cfg]; cfg is what the object
\* holds when the call returns or raises
_render_subnets(iface_cfg, subnets) ==
    LET st == SubnetTypesLoop([err |-> "none",
                               cfg |-> CfgSet(iface_cfg, k_BOOTPROTO, StrV(s_none))],
                              subnets)
    IN  IF st.err # "none" THEN st
        ELSE [err |-> "none",
              cfg |-> SubnetAddressLoop([cfg |-> st.cfg, ipv4_index |-> -1,
                                         ipv6_index |-> -1, position |-> 0],
                                        subnets).cfg]

\* The test that raises the duplicate-default-route ValueError
IsDuplicateDefault(subnet, route, route_cfg) ==
    \/ Truthy(DictGet(subnet, "ipv4")) /\ route_cfg.has_set_default_ipv4
    \/ Truthy(DictGet(subnet, "ipv6")) /\ route_cfg.has_set_default_ipv6

\* The default-route branch of _render_subnet_routes, after the duplicate test
RecordDefaultRoute(cfg, subnet, route) ==
    LET is_ipv6 == DictGet(subnet, "ipv6")
        c0 == CfgSet(cfg, k_DEFROUTE, BoolV(TRUE))
    IN  IF "gateway" \in DOMAIN route
        THEN IF Truthy(is_ipv6)
             THEN [CfgSet(c0, k_IPV6_DEFAULTGW, route.gateway)
                      EXCEPT !.routes.has_set_default_ipv6 = TRUE]
             ELSE [CfgSet(c0, k_GATEWAY, route.gateway)
                      EXCEPT !.routes.has_set_default_ipv4 = TRUE]
        ELSE c0

\* route_cfg[new_key] = route[old_key] for each old_key in route
RECURSIVE CopyRouteKeys(_, _, _)
CopyRouteKeys(conf, route, pairs) ==
    IF pairs = <<>> THEN conf
    ELSE CopyRouteKeys(IF pairs[1][1] \in DOMAIN route
                       THEN ConfigMap__setitem__(conf, pairs[1][2], route[pairs[1][1]])
                       ELSE conf,
                       route, Tail(pairs))

\* The non-default branch of _render_subnet_routes
StoreRoute(cfg, route) ==
    LET idx == DecStr(cfg.routes.last_idx)
    IN  [cfg EXCEPT !.routes.last_idx = @ + 1,
                    !.routes.conf =
                       CopyRouteKeys(@, route, << <<"gateway", k_GATEWAY \o idx>>,
                                                  <<"netmask", k_NETMASK \o idx>>,
                                                  <<"network", k_ADDRESS \o idx>> >>)]

\* The inner loop of _render_subnet_routes over one subnet's routes: [err, cfg]
RECURSIVE RoutesLoop(_, _, _)
RoutesLoop(st, subnet, routes) ==
    IF routes = <<>> \/ st.err # "none" THEN st
    ELSE LET route == routes[1]
             isdef == _is_default_route(route)
         IN
         IF isdef = "KeyError" THEN [st EXCEPT !.err = "KeyError"]
         ELSE IF isdef = "True"
         THEN IF IsDuplicateDefault(subnet, route, st.cfg.routes)
              THEN [st EXCEPT !.err = "ValueError"]
              ELSE RoutesLoop([st EXCEPT !.cfg = RecordDefaultRoute(st.cfg, subnet, route)],
                              subnet, Tail(routes))
         ELSE RoutesLoop([st EXCEPT !.cfg = StoreRoute(st.cfg, route)], subnet, Tail(routes))

RECURSIVE SubnetRoutesLoop(_, _)
SubnetRoutesLoop(st, subnets) ==
    IF subnets = <<>> \/ st.err # "none" THEN st
    ELSE SubnetRoutesLoop(
            RoutesLoop(st, subnets[1],
                       IF "routes" \in DOMAIN subnets[1] THEN subnets[1].routes ELSE <<>>),
            Tail(subnets))

\* _render_subnet_routes(iface_cfg, iface_cfg.routes, subnets): [err, cfg]
_render_subnet_routes(iface_cfg, subnets) ==
    SubnetRoutesLoop([err |-> "none", cfg |-> iface_cfg], subnets)

\* " ".join(parts)
RECURSIVE JoinSpace(_)
JoinSpace(parts) ==
    IF parts = <<>> THEN <<>>
    ELSE IF Len(parts) = 1 THEN parts[1]
    ELSE parts[1] \o s_space \o JoinSpace(Tail(parts))

RECURSIVE BondOpts(_, _)
BondOpts(iface, tpls) ==
    IF tpls = <<>> THEN <<>>
    ELSE LET t == tpls[1]
             opt == IF t[1] \in DOMAIN iface THEN << t[3] \o iface[t[1]].s >>
                    ELSE IF t[2] \in DOMAIN iface THEN << t[3] \o iface[t[2]].s >>
                    ELSE <<>>
         IN  opt \o BondOpts(iface, Tail(tpls))

_render_bonding_opts(iface_cfg, iface) ==
    LET bond_opts == BondOpts(iface, bond_tpl_opts)
    IN  IF bond_opts # <<>>
        THEN CfgSet(iface_cfg, k_BONDING_OPTS, StrV(JoinSpace(bond_opts)))
        ELSE iface_cfg

(***************************************************************************)
(* The passes over the working set iface_contents, a dict from interface   *)
(* name to NetInterface.  Each pass yields [err, cfgs]: the exception that *)
(* ended it ("none" when it returned) and the working set as it then is.   *)
(***************************************************************************)
\* One iteration of _render_physical_interfaces
PhysicalStep(st, iface) ==
    IF ~HasKey(st.cfgs, iface.name) THEN [st EXCEPT !.err = "KeyError"]
    ELSE LET iface_subnets == IF "subnets" \in DOMAIN iface THEN iface.subnets ELSE <<>>
             iface_cfg == GetItem(st.cfgs, iface.name)
             r1 == _render_subnets(iface_cfg, iface_subnets)
             r2 == IF r1.err # "none" THEN r1 ELSE _render_subnet_routes(r1.cfg, iface_subnets)
         IN  [err |-> r2.err, cfgs |-> SetItem(st.cfgs, iface.name, r2.cfg)]

RECURSIVE PhysicalLoop(_, _)
PhysicalLoop(st, ifaces) ==
    IF ifaces = <<>> \/ st.err # "none" THEN st
    ELSE PhysicalLoop(PhysicalStep(st, ifaces[1]), Tail(ifaces))

_render_physical_interfaces(state, cfgs) ==
    PhysicalLoop([err |-> "none", cfgs |-> cfgs], iter_interfaces(state, filter_by_physical))

\* A master whose kind is changed and whose BONDING_MASTER is left out.
MarkBondMasterKindOnly(master_cfg) == KindSetter(master_cfg, "bond").cfg

\* master_cfg['BONDING_MASTER'] = True; master_cfg.kind = 'bond'
MarkBondMaster(master_cfg) ==
    KindSetter(CfgSet(master_cfg, k_BONDING_MASTER, BoolV(TRUE)), "bond").cfg

\* The loop over [master_cfg] + master_cfg.children
MarkBondMasterAndChildren(master_cfg) ==
    LET m == MarkBondMaster(master_cfg)
    IN  [m EXCEPT !.children = [i \in DOMAIN @ |-> MarkBondMaster(@[i])]]

\* One iteration of _render_bond_interfaces
BondStep(st, iface) ==
    IF ~HasKey(st.cfgs, iface.name) THEN [st EXCEPT !.err = "KeyError"]
    ELSE LET c0 == _render_bonding_opts(GetItem(st.cfgs, iface.name), iface)
         IN
         IF "bond-master" \notin DOMAIN iface
         THEN [err |-> "KeyError", cfgs |-> SetItem(st.cfgs, iface.name, c0)]
         ELSE LET iface_master_name == iface["bond-master"]
                  c1 == CfgSet(CfgSet(c0, k_MASTER, iface_master_name), k_SLAVE, BoolV(TRUE))
                  cfgs1 == SetItem(st.cfgs, iface.name, c1)
              IN
              IF ~HasKey(cfgs1, iface_master_name.s)
              THEN [err |-> "KeyError", cfgs |-> cfgs1]
              ELSE [err |-> "none",
                    cfgs |-> SetItem(cfgs1, iface_master_name.s,
                                MarkBondMasterAndChildren(GetItem(cfgs1, iface_master_name.s)))]

RECURSIVE BondLoop(_, _)
BondLoop(st, ifaces) ==
    IF ifaces = <<>> \/ st.err # "none" THEN st
    ELSE BondLoop(BondStep(st, ifaces[1]), Tail(ifaces))

_render_bond_interfaces(state, cfgs) ==
    BondLoop([err |-> "none", cfgs |-> cfgs], iter_interfaces(state, filter_by_type("bond")))

\* One iteration of _render_vlan_interfaces
VlanStep(st, iface) ==
    IF ~HasKey(st.cfgs, iface.name) THEN [st EXCEPT !.err = "KeyError"]
    ELSE LET iface_name == iface.name
             c0 == CfgSet(GetItem(st.cfgs, iface_name), k_VLAN, BoolV(TRUE))
             c1 == CfgSet(c0, k_PHYSDEV, StrV(SliceTo(iface_name, rfind(iface_name, "."))))
         IN  [st EXCEPT !.cfgs = SetItem(@, iface_name, c1)]

RECURSIVE VlanLoop(_, _)
VlanLoop(st, ifaces) ==
    IF ifaces = <<>> \/ st.err # "none" THEN st
    ELSE VlanLoop(VlanStep(st, ifaces[1]), Tail(ifaces))

_render_vlan_interfaces(state, cfgs) ==
    VlanLoop([err |-> "none", cfgs |-> cfgs], iter_interfaces(state, filter_by_type("vlan")))

RECURSIVE BridgeOpts(_, _, _)
BridgeOpts(cfg, iface, pairs) ==
    IF pairs = <<>> THEN cfg
    ELSE BridgeOpts(IF pairs[1][1] \in DOMAIN iface
                    THEN CfgSet(cfg, pairs[1][2], iface[pairs[1][1]]) ELSE cfg,
                    iface, Tail(pairs))

\* The loop over [bridged_cfg] + bridged_cfg.children
MarkBridged(bridged_cfg, iface_name) ==
    LET b == CfgSet(bridged_cfg, k_BRIDGE, StrV(iface_name))
    IN  [b EXCEPT !.children = [i \in DOMAIN @ |-> CfgSet(@[i], k_BRIDGE, StrV(iface_name))]]

\* The loop over iface.get('bridge_ports', [])
RECURSIVE BridgePortsLoop(_, _, _)
BridgePortsLoop(st, iface_name, ports) ==
    IF ports = <<>> \/ st.err # "none" THEN st
    ELSE IF ~HasKey(st.cfgs, ports[1]) THEN [st EXCEPT !.err = "KeyError"]
    ELSE BridgePortsLoop(
            [st EXCEPT !.cfgs = SetItem(@, ports[1],
                                        MarkBridged(GetItem(st.cfgs, ports[1]), iface_name))],
            iface_name, Tail(ports))

\* One iteration of _render_bridge_interfaces
BridgeStep(st, iface) ==
    IF ~HasKey(st.cfgs, iface.name) THEN [st EXCEPT !.err = "KeyError"]
    ELSE LET iface_name == iface.name
             c0 == KindSetter(GetItem(st.cfgs, iface_name), "bridge").cfg
             c1 == BridgeOpts(c0, iface, bridge_opts_keys)
         IN  BridgePortsLoop([st EXCEPT !.cfgs = SetItem(@, iface_name, c1)], iface_name,
                             IF "bridge_ports" \in DOMAIN iface THEN iface.bridge_ports ELSE <<>>)

RECURSIVE BridgeLoop(_, _)
BridgeLoop(st, ifaces) ==
    IF ifaces = <<>> \/ st.err # "none" THEN st
    ELSE BridgeLoop(BridgeStep(st, ifaces[1]), Tail(ifaces))

_render_bridge_interfaces(state, cfgs) ==
    BridgeLoop([err |-> "none", cfgs |-> cfgs], iter_interfaces(state, filter_by_type("bridge")))

\* The first loop of _render_sysconfig: one NetInterface per interface
RECURSIVE CreateLoop(_, _, _)
CreateLoop(cfgs, base_sysconf_dir, ifaces) ==
    IF ifaces = <<>> THEN cfgs
    ELSE LET iface == ifaces[1]
             iface_cfg == NetInterface__init__(iface.name, base_sysconf_dir, "ethernet")
         IN  CreateLoop(SetItem(cfgs, iface.name, _render_iface_shared(iface, iface_cfg)),
                        base_sysconf_dir, Tail(ifaces))

CreateInterfaces(base_sysconf_dir, state) ==
    CreateLoop(<<>>, base_sysconf_dir, iter_interfaces(state, NoFilter))

\* contents[child.path] = child.to_string() for each non-empty child
RECURSIVE ChildrenFiles(_, _)
ChildrenFiles(contents, children) ==
    IF children = <<>> THEN contents
    ELSE ChildrenFiles(IF ConfigMap__len__(children[1].conf) # 0
                       THEN SetItem(contents, NetInterface_path(children[1]),
                                    ConfigMap_to_string(children[1].conf))
                       ELSE contents,
                       Tail(children))

\* A route table that is emitted whatever it holds.
HasRoutesAlways(routes) == TRUE

\* if iface_cfg.routes: the truth value of a Route is that of its __len__
HasRoutes(routes) == ConfigMap__len__(routes.conf) # 0

\* One iteration of the collection loop of _render_sysconfig: [err, contents]
CollectStep(st, iface_cfg) ==
    LET c1 == IF ConfigMap__len__(iface_cfg.conf) # 0 \/ iface_cfg.children # <<>>
              THEN ChildrenFiles(SetItem(st.contents, NetInterface_path(iface_cfg),
                                         ConfigMap_to_string(iface_cfg.conf)),
                                 iface_cfg.children)
              ELSE st.contents
        \* the loop over the children rebinds iface_cfg
        last == IF (ConfigMap__len__(iface_cfg.conf) # 0 \/ iface_cfg.children # <<>>)
                   /\ iface_cfg.children # <<>>
                THEN iface_cfg.children[Len(iface_cfg.children)] ELSE iface_cfg
    IN  IF ~HasRoutes(last.routes) THEN [st EXCEPT !.contents = c1]
        ELSE LET r4 == Route_to_string(last.routes, "ipv4")
                 r6 == Route_to_string(last.routes, "ipv6")
             IN  IF r4.err # "none" THEN [err |-> r4.err, contents |-> c1]
                 ELSE LET c2 == SetItem(c1, path_ipv4(last.routes), r4.out)
                      IN  IF r6.err # "none" THEN [err |-> r6.err, contents |-> c2]
                          ELSE [err |-> "none",
                                contents |-> SetItem(c2, path_ipv6(last.routes), r6.out)]

RECURSIVE CollectLoop(_, _)
CollectLoop(st, cfgs) ==
    IF cfgs = <<>> \/ st.err # "none" THEN st
    ELSE CollectLoop(CollectStep(st, cfgs[1][2]), Tail(cfgs))

\* The collection loop of _render_sysconfig over iface_contents.items()
CollectContents(cfgs) == CollectLoop([err |-> "none", contents |-> <<>>], cfgs)

\* _render_sysconfig(base_sysconf_dir, network_state): [err, contents]
_render_sysconfig(base_sysconf_dir, state) ==
    LET c0 == CreateInterfaces(base_sysconf_dir, state)
        p1 == _render_physical_interfaces(state, c0)
        p2 == IF p1.err # "none" THEN p1 ELSE _render_bond_interfaces(state, p1.cfgs)
        p3 == IF p2.err # "none" THEN p2 ELSE _render_vlan_interfaces(state, p2.cfgs)
        p4 == IF p3.err # "none" THEN p3 ELSE _render_bridge_interfaces(state, p3.cfgs)
    IN  IF p4.err # "none" THEN [err |-> p4.err, contents |-> <<>>]
        ELSE CollectContents(p4.cfgs)

(***************************************************************************)
(* The network states explored.                                            *)
(***************************************************************************)
MaxSubnets == 3
MaxRoutes == 3
MaxIfaces == 3

\* All sequences over S of length at most n
SeqsUpTo(S, n) == UNION {[1..k -> S] : k \in 0..n}

R4a == [network |-> StrV(a_net4a), netmask |-> StrV(a_mask16), gateway |-> StrV(a_gw4a)]
R4b == [network |-> StrV(a_net4b), netmask |-> StrV(a_mask8), gateway |-> StrV(a_gw4b)]
R6a == [network |-> StrV(a_net6), netmask |-> IntV(64), gateway |-> StrV(a_gw6)]
D4a == [network |-> StrV(s_zero4), netmask |-> StrV(s_zero4), gateway |-> StrV(a_gw4a)]
D4b == [network |-> StrV(s_zero4), netmask |-> StrV(s_zero4), gateway |-> StrV(a_gw4b)]
D4n == [network |-> StrV(s_zero4), netmask |-> StrV(s_zero4)]
D6a == [network |-> StrV(s_zero6), netmask |-> IntV(0), gateway |-> StrV(a_gw6)]

RouteChoices == {R4a, R4b, R6a, D4a, D4b, D4n, D6a}

Static4a == [type |-> StrV(s_static), address |-> StrV(a_v4a), netmask |-> StrV(a_mask24)]
Static4b == [type |-> StrV(s_static), address |-> StrV(a_v4b)]
Static6a == [type |-> StrV(s_static), address |-> StrV(a_v6a), netmask |-> IntV(64)]
Static6b == [type |-> StrV(s_static), address |-> StrV(a_v6b)]
Dhcp4 == [type |-> StrV(s_dhcp)]
Dhcp6 == [type |-> StrV(s_dhcp6)]
Unknown == [type |-> StrV(s_foo)]

WithRoutes(subnet, routes) == subnet @@ [routes |-> routes]
WithIpv4(subnet) == subnet @@ [ipv4 |-> BoolV(TRUE)]
WithIpv6(subnet) == subnet @@ [ipv6 |-> BoolV(TRUE)]

\* Subnet lists without routes: every mix of the subnet types
SubnetShapes == {Static4a, Static4b, Static6a, Static6b, Dhcp4, Dhcp6, Unknown}

SubnetLists == SeqsUpTo(SubnetShapes, MaxSubnets)

\* One subnet with routes, with and without the family flags
RouteSubnetLists ==
    {<<WithRoutes(s, rs)>> : s \in {Static4a, WithIpv4(Static4a), Static6a, WithIpv6(Static6a)},
                             rs \in SeqsUpTo(RouteChoices, MaxRoutes)}

Physical(name, subnets) == [name |-> name, type |-> "physical", subnets |-> subnets]

\* The interfaces a state may hold besides eth0
BondMemberA ==
    [name |-> n_eth2, type |-> "bond", bond_mode |-> StrV(a_8023ad)]
    @@ ("bond-master" :> StrV(n_bond0))
BondMemberB ==
    [name |-> n_eth3, type |-> "bond"]
    @@ ("bond-master" :> StrV(n_br0)) @@ ("bond-miimon" :> IntV(100))
BondMemberNoMaster == [name |-> n_eth4, type |-> "bond"]
BondMaster == [name |-> n_bond0, type |-> "physical", subnets |-> <<Dhcp4>>]
VlanDot == [name |-> n_vlan_dot, type |-> "vlan"]
VlanNoDot == [name |-> n_vlan_nodot, type |-> "vlan"]
BridgeA == [name |-> n_br0, type |-> "bridge", bridge_ports |-> <<n_eth0>>,
            bridge_stp |-> StrV(s_on)]
BridgeMissingPort == [name |-> n_br1, type |-> "bridge", bridge_ports |-> <<n_missing>>]

OtherInterfaces ==
    <<BondMemberA, BondMemberB, BondMemberNoMaster, BondMaster, VlanDot, VlanNoDot,
      BridgeA, BridgeMissingPort>>

\* eth0 as the states with several interfaces hold it
TopologyEth0 ==
    {Physical(n_eth0, <<>>) @@ [mac_address |-> StrV(a_mac), mtu |-> IntV(1500)],
     Physical(n_eth0, <<WithRoutes(Static4a, <<R4a, R6a>>), Static6a>>),
     Physical(n_eth0, <<WithRoutes(WithIpv4(Static4a), <<D4a>>),
                        WithRoutes(WithIpv4(Static4b), <<D4b>>)>>),
     Physical(n_eth0, <<Static4a, Unknown>>)}

\* The sub-sequences of OtherInterfaces picked by a set of positions
Pick(idx) == SelectSeq([i \in DOMAIN OtherInterfaces |-> IF i \in idx THEN <<OtherInterfaces[i]>> ELSE <<>>],
                       LAMBDA e : e # <<>>)

Flatten1(ss) == [i \in DOMAIN ss |-> ss[i][1]]

TopologyStates ==
    {[interfaces |-> <<e>> \o Flatten1(Pick(idx))] :
        e \in TopologyEth0,
        idx \in {s \in SUBSET DOMAIN OtherInterfaces : Cardinality(s) < MaxIfaces}}

NetworkStates ==
    TopologyStates
    \cup {[interfaces |-> <<Physical(n_eth0, sl)>>] : sl \in SubnetLists \cup RouteSubnetLists}

(***************************************************************************)
(* render_network_state(target, network_state) as a state machine: one     *)
(* step for each loop and pass of _render_sysconfig, then one per file     *)
(* written.                                                                *)
(***************************************************************************)
VARIABLES
    network_state,   \* the argument of render_network_state
    iface_contents,  \* the working set of _render_sysconfig
    contents,        \* the path -> content dict _render_sysconfig builds
    files_written,   \* the paths handed to util.write_file, in order
    pc,              \* where render_network_state stands
    error,           \* the exception that ended it, "none" while there is none
    store,           \* a ConfigMap driven through its own methods
    call,            \* the last call made on a NetInterface, and its outcome
    heap,            \* the Python objects behind a NetInterface and its copy
    refs             \* the references a caller holds into the heap

vars ==
    <<network_state, iface_contents, contents, files_written, pc, error, store, call,
      heap, refs>>

base_sysconf_dir == path_join(Target, sysconf_dir)

\* No object of the heap is named yet
NoRefs == [original |-> 0, copy |-> 0]

NoCall == [op |-> "none", key |-> <<>>, arg |-> "", err |-> "none", before |-> <<>>, count |-> 0]

\* A step of the renderer forgets the last call, not how many were made
AfterCall == [NoCall EXCEPT !.count = call.count]

\* An exception that is caught where it is raised.
OutcomeSwallowed(err, next_pc) == next_pc

\* Where control goes after a step: on, or out of render_network_state
\* with the exception
Outcome(err, next_pc) == IF err = "none" THEN next_pc ELSE "raised"

Init ==
    /\ network_state \in NetworkStates
    /\ iface_contents = <<>>
    /\ contents = <<>>
    /\ files_written = <<>>
    /\ pc = "create"
    /\ error = "none"
    /\ store = ConfigMap__init__
    /\ call = NoCall
    /\ heap = <<>>
    /\ refs = NoRefs

Create ==
    /\ pc = "create"
    /\ iface_contents' = CreateInterfaces(base_sysconf_dir, network_state)
    /\ pc' = "physical"
    /\ call' = AfterCall
    /\ UNCHANGED <<network_state, contents, files_written, error, store,
                 heap, refs>>

Pass(at, result, next_pc) ==
    /\ pc = at
    /\ iface_contents' = result.cfgs
    /\ error' = IF result.err # "none" THEN result.err ELSE error
    /\ pc' = Outcome(result.err, next_pc)
    /\ call' = AfterCall
    /\ UNCHANGED <<network_state, contents, files_written, store,
                 heap, refs>>

RenderPhysical ==
    Pass("physical", _render_physical_interfaces(network_state, iface_contents), "bond")

RenderBond ==
    Pass("bond", _render_bond_interfaces(network_state, iface_contents), "vlan")

RenderVlan ==
    Pass("vlan", _render_vlan_interfaces(network_state, iface_contents), "bridge")

RenderBridge ==
    Pass("bridge", _render_bridge_interfaces(network_state, iface_contents), "collect")

Collect ==
    /\ pc = "collect"
    /\ LET r == CollectContents(iface_contents)
       IN  /\ contents' = r.contents
           /\ error' = IF r.err # "none" THEN r.err ELSE error
           /\ pc' = Outcome(r.err, "write")
    /\ call' = AfterCall
    /\ UNCHANGED <<network_state, iface_contents, files_written, store,
                 heap, refs>>

\* One iteration of the loop over the items of _render_sysconfig's dict
WriteFile ==
    /\ pc = "write"
    /\ Len(files_written) < Len(contents)
    /\ files_written' = Append(files_written, contents[Len(files_written) + 1][1])
    /\ call' = AfterCall
    /\ UNCHANGED <<network_state, iface_contents, contents, pc, error, store,
                 heap, refs>>

\* The resolv.conf write, once the loop over the dict has ended
WriteDns ==
    /\ pc = "write"
    /\ Len(files_written) = Len(contents)
    /\ files_written' = Append(files_written, path_join(Target, dns_path))
    /\ pc' = "netrules"
    /\ call' = AfterCall
    /\ UNCHANGED <<network_state, iface_contents, contents, error, store,
                 heap, refs>>

WriteNetrules ==
    /\ pc = "netrules"
    /\ files_written' = Append(files_written, path_join(Target, netrules_path))
    /\ pc' = "done"
    /\ call' = AfterCall
    /\ UNCHANGED <<network_state, iface_contents, contents, error, store,
                 heap, refs>>

Next ==
    \/ Create
    \/ RenderPhysical
    \/ RenderBond
    \/ RenderVlan
    \/ RenderBridge
    \/ Collect
    \/ WriteFile
    \/ WriteDns
    \/ WriteNetrules

Spec == Init /\ [][Next]_vars

(***************************************************************************)
(* A ConfigMap on its own: any sequence of __setitem__ and drop.           *)
(***************************************************************************)
MaxStore == 4

StoreKeys ==
    {k_IPADDR, k_IPADDR \o <<"1">>, k_IPADDR \o <<"1", "0">>, k_IPADDR \o <<"2">>, k_DEVICE}

StoreValues == {StrV(a_v4a), BoolV(TRUE), StrV(a_8023ad \o s_space \o a_layer2)}

InitStore ==
    /\ network_state = [interfaces |-> <<>>]
    /\ iface_contents = <<>>
    /\ contents = <<>>
    /\ files_written = <<>>
    /\ pc = "idle"
    /\ error = "none"
    /\ store = ConfigMap__init__
    /\ call = NoCall
    /\ heap = <<>>
    /\ refs = NoRefs

StoreSet ==
    \E key \in StoreKeys, value \in StoreValues :
        /\ HasKey(store, key) \/ ConfigMap__len__(store) < MaxStore
        /\ store' = ConfigMap__setitem__(store, key, value)
        /\ UNCHANGED <<network_state, iface_contents, contents, files_written, pc, error, call,
                     heap, refs>>

StoreDrop ==
    \E key \in StoreKeys :
        /\ store' = ConfigMap_drop(store, key)
        /\ UNCHANGED <<network_state, iface_contents, contents, files_written, pc, error, call,
                     heap, refs>>

NextStore == StoreSet \/ StoreDrop

SpecStore == InitStore /\ [][NextStore]_vars

(***************************************************************************)
(* The working set under the methods of NetInterface as well: the kind     *)
(* setter, the name setter and copy, called between the renderer's steps.  *)
(***************************************************************************)
MaxCalls == 2

KindChoices == {"ethernet", "bond", "bridge", "vlan"}

NameChoices == {n_eth1, n_vlan_dot}

ObjectStates ==
    {[interfaces |-> <<Physical(n_eth0, <<WithRoutes(Static4a, <<R4a, D4a>>)>>),
                       BondMemberA, BondMaster>>],
     [interfaces |-> <<Physical(n_eth0, <<Static6a>>), VlanDot, BridgeA, BondMemberB>>]}

InitObjects ==
    /\ network_state \in ObjectStates
    /\ iface_contents = <<>>
    /\ contents = <<>>
    /\ files_written = <<>>
    /\ pc = "create"
    /\ error = "none"
    /\ store = ConfigMap__init__
    /\ call = NoCall
    /\ heap = <<>>
    /\ refs = NoRefs

Called(op, key, arg, err, before) ==
    [op |-> op, key |-> key, arg |-> arg, err |-> err, before |-> before,
     count |-> call.count + 1]

SetKind ==
    \E i \in DOMAIN iface_contents, kind \in KindChoices :
        LET key == iface_contents[i][1]
            r == KindSetter(iface_contents[i][2], kind)
        IN  /\ call.count < MaxCalls
            /\ iface_contents' = SetItem(iface_contents, key, r.cfg)
            /\ call' = Called("setKind", key, kind, r.err, iface_contents[i][2])
            /\ UNCHANGED <<network_state, contents, files_written, pc, error, store,
                 heap, refs>>

Rename ==
    \E i \in DOMAIN iface_contents, iface_name \in NameChoices :
        LET key == iface_contents[i][1]
        IN  /\ call.count < MaxCalls
            /\ iface_contents' = SetItem(iface_contents, key,
                                         NameSetter(iface_contents[i][2], iface_name))
            /\ call' = Called("rename", key, "", "none", iface_contents[i][2])
            /\ UNCHANGED <<network_state, contents, files_written, pc, error, store,
                 heap, refs>>

\* The object in the working set replaced by a copy of itself
Copy ==
    \E i \in DOMAIN iface_contents, copy_children \in BOOLEAN, copy_routes \in BOOLEAN :
        LET key == iface_contents[i][1]
        IN  /\ call.count < MaxCalls
            /\ iface_contents' = SetItem(iface_contents, key,
                                         NetInterface_copy(iface_contents[i][2],
                                                           copy_children, copy_routes))
            /\ call' = Called("copy", key, "", "none", iface_contents[i][2])
            /\ UNCHANGED <<network_state, contents, files_written, pc, error, store,
                 heap, refs>>

NextObjects == Next \/ SetKind \/ Rename \/ Copy

SpecObjects == InitObjects /\ [][NextObjects]_vars

(***************************************************************************)
(* NetInterface.copy on a heap.  Where objects can be shared the value of  *)
(* an attribute is a reference: the heap is the sequence of the objects    *)
(* allocated so far and a reference is an index into it.  The objects are  *)
(* NetInterface and Route instances, the dict behind each ConfigMap        *)
(* (_conf) and the list behind children.                                   *)
(***************************************************************************)
MaxChildren == 1
MaxMutations == 3

NewDict(items) == [class |-> "dict", items |-> items]

NewList(elems) == [class |-> "list", elems |-> elems]

\* Route(route_name, base_sysconf_dir) allocated on h: the instance, then
\* the dict of ConfigMap.__init__
HeapRoute(h, route_name, base) ==
    LET self == Len(h) + 1
        v == Route__init__(route_name, base)
    IN  [heap |-> h \o << [class |-> "Route", _conf |-> self + 1,
                           last_idx |-> v.last_idx,
                           has_set_default_ipv4 |-> v.has_set_default_ipv4,
                           has_set_default_ipv6 |-> v.has_set_default_ipv6,
                           _route_name |-> v.route_name,
                           _base_sysconf_dir |-> v.base_sysconf_dir],
                          NewDict(v.conf) >>,
         ref |-> self]

\* Route.copy of the Route at self
HeapRouteCopy(h, self) ==
    LET n == HeapRoute(h, h[self]._route_name, h[self]._base_sysconf_dir)
        r == n.ref
        h1 == Append(n.heap, NewDict(h[h[self]._conf].items))
    IN  [heap |-> [h1 EXCEPT ![r]._conf = Len(h1),
                             ![r].last_idx = h[self].last_idx,
                             ![r].has_set_default_ipv4 = h[self].has_set_default_ipv4,
                             ![r].has_set_default_ipv6 = h[self].has_set_default_ipv6],
         ref |-> r]

\* NetInterface(iface_name, base_sysconf_dir, kind) allocated on h: the
\* instance, its dict, its children list, its Route
HeapNetInterface(h, iface_name, base, kind) ==
    LET self == Len(h) + 1
        v == NetInterface__init__(iface_name, base, kind)
        h1 == h \o << [class |-> "NetInterface", _conf |-> self + 1,
                       children |-> self + 2, routes |-> self + 3,
                       _kind |-> v.kind, _iface_name |-> v.iface_name,
                       _base_sysconf_dir |-> v.base_sysconf_dir],
                      NewDict(v.conf),
                      NewList(<<>>) >>
    IN  [heap |-> HeapRoute(h1, iface_name, base).heap, ref |-> self]

\* NetInterface.copy of the NetInterface at self
HeapNetInterfaceCopy(h, self, copy_children, copy_routes) ==
    LET n == HeapNetInterface(h, h[self]._iface_name, h[self]._base_sysconf_dir,
                              h[self]._kind)
        c == n.ref
        h1 == Append(n.heap, NewDict(h[h[self]._conf].items))
        h2 == [h1 EXCEPT ![c]._conf = Len(h1)]
        h3 == IF copy_children
              THEN LET l == Append(h2, NewList(h[h[self].children].elems))
                   IN  [l EXCEPT ![c].children = Len(l)]
              ELSE h2
        h4 == IF copy_routes
              THEN LET r == HeapRouteCopy(h3, h[self].routes)
                   IN  [r.heap EXCEPT ![c].routes = r.ref]
              ELSE h3
    IN  [heap |-> h4, ref |-> c]

\* The Route at ref as a value
RouteView(h, ref) ==
    [conf |-> h[h[ref]._conf].items,
     route_name |-> h[ref]._route_name,
     base_sysconf_dir |-> h[ref]._base_sysconf_dir,
     last_idx |-> h[ref].last_idx,
     has_set_default_ipv4 |-> h[ref].has_set_default_ipv4,
     has_set_default_ipv6 |-> h[ref].has_set_default_ipv6]

\* The NetInterface at ref as a value: what a caller holding ref can read
RECURSIVE View(_, _)
View(h, ref) ==
    [conf |-> h[h[ref]._conf].items,
     children |-> [i \in DOMAIN h[h[ref].children].elems |->
                      View(h, h[h[ref].children].elems[i])],
     routes |-> RouteView(h, h[ref].routes),
     kind |-> h[ref]._kind,
     iface_name |-> h[ref]._iface_name,
     base_sysconf_dir |-> h[ref]._base_sysconf_dir]

\* The heap once the conf and the route table of the value cfg are stored
\* in the objects of the NetInterface at ref
Stored(h, ref, cfg) ==
    LET r == h[ref].routes
    IN  [h EXCEPT ![h[ref]._conf].items = cfg.conf,
                  ![h[r]._conf].items = cfg.routes.conf,
                  ![r].last_idx = cfg.routes.last_idx,
                  ![r].has_set_default_ipv4 = cfg.routes.has_set_default_ipv4,
                  ![r].has_set_default_ipv6 = cfg.routes.has_set_default_ipv6]

Holders == {"original", "copy"}

Other(holder) == IF holder = "original" THEN "copy" ELSE "original"

\* A call made through the reference `holder`, with what the other
\* reference showed before it
Mutated(holder) ==
    [op |-> "mutate", key |-> <<>>, arg |-> holder, err |-> "none",
     before |-> IF refs[Other(holder)] = 0 THEN <<>> ELSE View(heap, refs[Other(holder)]),
     count |-> call.count + 1]

HeldBy(holder) == refs[holder] # 0 /\ call.count < MaxMutations

HeapFrame ==
    UNCHANGED <<network_state, iface_contents, contents, files_written, pc, error, store>>

InitCopy ==
    /\ network_state = [interfaces |-> <<>>]
    /\ iface_contents = <<>>
    /\ contents = <<>>
    /\ files_written = <<>>
    /\ pc = "idle"
    /\ error = "none"
    /\ store = ConfigMap__init__
    /\ call = NoCall
    /\ \E kind \in DOMAIN iface_types :
          LET n == HeapNetInterface(<<>>, n_eth0, base_sysconf_dir, kind)
          IN  heap = n.heap /\ refs = [original |-> n.ref, copy |-> 0]

\* holder.children.append(NetInterface(...))
AppendChild ==
    \E holder \in Holders :
        /\ HeldBy(holder)
        /\ Len(heap[heap[refs[holder]].children].elems) < MaxChildren
        /\ LET n == HeapNetInterface(heap, n_vlan_dot, base_sysconf_dir, "ethernet")
           IN  heap' = [n.heap EXCEPT ![heap[refs[holder]].children].elems = Append(@, n.ref)]
        /\ call' = Mutated(holder)
        /\ UNCHANGED refs
        /\ HeapFrame

\* copy = original.copy(copy_children, copy_routes)
HeapCopy ==
    \E copy_children \in BOOLEAN, copy_routes \in BOOLEAN :
        /\ refs.original # 0
        /\ refs.copy = 0
        /\ LET c == HeapNetInterfaceCopy(heap, refs.original, copy_children, copy_routes)
           IN  heap' = c.heap /\ refs' = [refs EXCEPT !.copy = c.ref]
        /\ call' = [AfterCall EXCEPT !.op = "copy"]
        /\ HeapFrame

\* holder[key] = value
HeapSetItem ==
    \E holder \in Holders, key \in {k_MTU, k_DEVICE}, value \in {StrV(n_eth1)} :
        /\ HeldBy(holder)
        /\ heap' = [heap EXCEPT ![heap[refs[holder]]._conf].items =
                                    ConfigMap__setitem__(@, key, value)]
        /\ call' = Mutated(holder)
        /\ UNCHANGED refs
        /\ HeapFrame

\* holder.drop(key)
HeapDrop ==
    \E holder \in Holders, key \in {k_MTU, k_DEVICE} :
        /\ HeldBy(holder)
        /\ heap' = [heap EXCEPT ![heap[refs[holder]]._conf].items = ConfigMap_drop(@, key)]
        /\ call' = Mutated(holder)
        /\ UNCHANGED refs
        /\ HeapFrame

\* holder.children[i][key] = value
ChildSetItem ==
    \E holder \in Holders, value \in {IntV(1500)} :
        /\ HeldBy(holder)
        /\ \E i \in DOMAIN heap[heap[refs[holder]].children].elems :
              LET child == heap[heap[refs[holder]].children].elems[i]
              IN  heap' = [heap EXCEPT ![heap[child]._conf].items =
                                          ConfigMap__setitem__(@, k_MTU, value)]
        /\ call' = Mutated(holder)
        /\ UNCHANGED refs
        /\ HeapFrame

\* _render_subnet_routes(holder, holder.routes, subnets)
HeapRenderRoutes ==
    \E holder \in Holders,
       routes \in {<<R4a>>, <<D4a>>}, subnet \in {WithIpv4(Static4a)} :
        /\ HeldBy(holder)
        /\ LET r == _render_subnet_routes(View(heap, refs[holder]),
                                          <<WithRoutes(subnet, routes)>>)
           IN  /\ heap' = Stored(heap, refs[holder], r.cfg)
               /\ call' = [Mutated(holder) EXCEPT !.err = r.err]
        /\ UNCHANGED refs
        /\ HeapFrame

NextCopy ==
    \/ AppendChild
    \/ HeapCopy
    \/ HeapSetItem
    \/ HeapDrop
    \/ ChildSetItem
    \/ HeapRenderRoutes

SpecCopy == InitCopy /\ [][NextCopy]_vars

(***************************************************************************)
(* The renderer on route lists of two further shapes: non-default routes   *)
(* that lack a 'gateway' or a 'netmask', and many routes on one interface. *)
(***************************************************************************)
MaxPartial == 2
MaxMany == 10

R4g == [network |-> StrV(a_net4a), netmask |-> StrV(a_mask16)]
R4m == [network |-> StrV(a_net4b), gateway |-> StrV(a_gw4b)]
R6g == [network |-> StrV(a_net6), netmask |-> IntV(64)]

PartialRouteChoices == {R4a, R6a, R4g, R4m, R6g}

\* The i-th of many routes: 10.<i>.0.0/255.255.0.0
NumberedRoute(i) ==
    [network |-> StrV(<<"1", "0", ".">> \o DecStr(i) \o <<".", "0", ".", "0">>),
     netmask |-> StrV(a_mask16),
     gateway |-> StrV(a_gw4a)]

RouteListStates ==
    {[interfaces |-> <<Physical(n_eth0, <<WithRoutes(Static4a, rs)>>)>>] :
        rs \in SeqsUpTo(PartialRouteChoices, MaxPartial)
               \cup {[i \in 1..n |-> NumberedRoute(i)] : n \in 1..MaxMany}}

InitRoutes ==
    /\ network_state \in RouteListStates
    /\ iface_contents = <<>>
    /\ contents = <<>>
    /\ files_written = <<>>
    /\ pc = "create"
    /\ error = "none"
    /\ store = ConfigMap__init__
    /\ call = NoCall
    /\ heap = <<>>
    /\ refs = NoRefs

SpecRoutes == InitRoutes /\ [][Next]_vars

(***************************************************************************)
(* Properties.  What they say of the input is said in the input's own      *)
(* terms: a route's family is that of its network, a default route is      *)
(* 0.0.0.0/0.0.0.0 or ::/0.                                                *)
(***************************************************************************)
PhysicalDone == pc \in {"bond", "vlan", "bridge", "collect", "write", "netrules", "done"}

Collected == pc \in {"write", "netrules", "done"}

InputInterfaces == {network_state.interfaces[i] : i \in DOMAIN network_state.interfaces}

PhysicalInputs == {iface \in InputInterfaces : iface.type = "physical"}

SubnetsOf(iface) == IF "subnets" \in DOMAIN iface THEN iface.subnets ELSE <<>>

\* The routes of a subnet list, in the order the route pass meets them,
\* each with the subnet that carries it
RECURSIVE RoutesIn(_)
RoutesIn(subnets) ==
    IF subnets = <<>> THEN <<>>
    ELSE LET rs == IF "routes" \in DOMAIN subnets[1] THEN subnets[1].routes ELSE <<>>
         IN  [i \in DOMAIN rs |-> [subnet |-> subnets[1], route |-> rs[i]]]
             \o RoutesIn(Tail(subnets))

IsDefault4(route) == route.network = StrV(s_zero4) /\ route.netmask = StrV(s_zero4)

IsDefault6(route) == route.network = StrV(s_zero6) /\ route.netmask = IntV(0)

IsDefault(route) == IsDefault4(route) \/ IsDefault6(route)

Defaults4(iface) == SelectSeq(RoutesIn(SubnetsOf(iface)), LAMBDA e : IsDefault4(e.route))

Defaults6(iface) == SelectSeq(RoutesIn(SubnetsOf(iface)), LAMBDA e : IsDefault6(e.route))

NonDefaults(iface) == SelectSeq(RoutesIn(SubnetsOf(iface)), LAMBDA e : ~IsDefault(e.route))

CfgOf(iface) == GetItem(iface_contents, iface.name)

Holds(conf, key, value) == HasKey(conf, key) /\ GetItem(conf, key) = value

\* C1: at most one default route per address family is recorded on an
\* interface: when the route pass has gone through without an error, no
\* physical interface carried two default routes of one family, whatever
\* flags its subnets carry and whether or not the routes have a gateway.
C1_SecondDefaultRouteFails ==
    PhysicalDone =>
        \A iface \in PhysicalInputs : Len(Defaults4(iface)) <= 1 /\ Len(Defaults6(iface)) <= 1

\* C2: a default route goes onto the interface config and not into the route
\* table: after the route pass DEFROUTE is true, the gateway of the (last)
\* IPv4 default route is under GATEWAY and has_set_default_ipv4 is set, that
\* of the IPv6 default route under IPV6_DEFAULTGW with has_set_default_ipv6,
\* and the route table holds and has counted the non-default routes only.
C2_DefaultRouteOnInterface ==
    PhysicalDone =>
        \A iface \in PhysicalInputs :
            LET cfg == CfgOf(iface)
                d4 == SelectSeq(Defaults4(iface), LAMBDA e : "gateway" \in DOMAIN e.route)
                d6 == SelectSeq(Defaults6(iface), LAMBDA e : "gateway" \in DOMAIN e.route)
            IN  /\ Defaults4(iface) \o Defaults6(iface) # <<>>
                      => Holds(cfg.conf, k_DEFROUTE, BoolV(TRUE))
                /\ d4 # <<>> => /\ Holds(cfg.conf, k_GATEWAY, d4[Len(d4)].route.gateway)
                                /\ cfg.routes.has_set_default_ipv4
                /\ d6 # <<>> => /\ Holds(cfg.conf, k_IPV6_DEFAULTGW, d6[Len(d6)].route.gateway)
                                /\ cfg.routes.has_set_default_ipv6
                /\ cfg.routes.last_idx = 1 + Len(NonDefaults(iface))
                /\ Cardinality({i \in DOMAIN cfg.routes.conf :
                                   Contains(cfg.routes.conf[i][1], k_ADDRESS)})
                      = Len(NonDefaults(iface))

RouteFile4(name) == base_sysconf_dir \o s_route4 \o name

RouteFile6(name) == base_sysconf_dir \o s_route6 \o name

C4_NoWriteBeforeMappingComplete ==
    /\ error # "none" => files_written = <<>> /\ pc = "raised"
    /\ files_written # <<>> =>
          LET r == _render_sysconfig(base_sysconf_dir, network_state)
          IN  /\ r.err = "none"
              /\ contents = r.contents
              /\ \A i \in DOMAIN files_written :
                    i <= Len(contents) => files_written[i] = contents[i][1]

\* A render ended by the duplicate-default-route error after another
\* interface's rendering went through
C4_Witness ==
    /\ pc = "raised"
    /\ error = "ValueError"
    /\ files_written = <<>>
    /\ \E iface \in PhysicalInputs :
          /\ Len(Defaults4(iface)) >= 2
          /\ CfgOf(iface).routes.has_set_default_ipv4

IsStatic(subnet) == DictGet(subnet, "type") = StrV(s_static)

IsStatic4(subnet) == IsStatic(subnet) /\ ~Contains(subnet.address.s, <<":">>)

IsStatic6(subnet) == IsStatic(subnet) /\ Contains(subnet.address.s, <<":">>)

Numbered(key, k) == IF k = 0 THEN key ELSE key \o DecStr(k)

Cidr(subnet) ==
    IF "netmask" \in DOMAIN subnet
    THEN subnet.address.s \o s_slash \o subnet.netmask.s ELSE subnet.address.s

RECURSIVE CidrList(_)
CidrList(subnets) ==
    IF Len(subnets) = 1 THEN Cidr(subnets[1])
    ELSE Cidr(subnets[1]) \o s_space \o CidrList(Tail(subnets))

\* C5: after the subnet pass the k-th static IPv4 subnet of an interface
\* (k = 0, 1, ...) is under IPADDR<k>/NETMASK<k>, with no suffix for k = 0,
\* whatever other subnets stand between them, and no other IPADDR<k> is set;
\* the static IPv6 subnets are counted on their own: the first is IPV6ADDR,
\* the others IPV6ADDR_SECONDARIES.
C5_StaticSubnetsNumberedPerFamily ==
    PhysicalDone =>
        \A iface \in PhysicalInputs :
            LET conf == CfgOf(iface).conf
                v4 == SelectSeq(SubnetsOf(iface), IsStatic4)
                v6 == SelectSeq(SubnetsOf(iface), IsStatic6)
            IN  /\ \A k \in 0..(MaxSubnets + 1) :
                      IF k < Len(v4)
                      THEN /\ Holds(conf, Numbered(k_IPADDR, k), v4[k + 1].address)
                           /\ IF "netmask" \in DOMAIN v4[k + 1]
                              THEN Holds(conf, Numbered(k_NETMASK, k), v4[k + 1].netmask)
                              ELSE ~HasKey(conf, Numbered(k_NETMASK, k))
                      ELSE /\ ~HasKey(conf, Numbered(k_IPADDR, k))
                           /\ ~HasKey(conf, Numbered(k_NETMASK, k))
                /\ IF v6 = <<>> THEN ~HasKey(conf, k_IPV6ADDR)
                   ELSE Holds(conf, k_IPV6ADDR, StrV(Cidr(v6[1])))
                /\ IF Len(v6) < 2 THEN ~HasKey(conf, k_IPV6ADDR_SECONDARIES)
                   ELSE Holds(conf, k_IPV6ADDR_SECONDARIES, StrV(CidrList(Tail(v6))))

\* Two static IPv4 subnets with a static IPv6 subnet between them
C5_Witness ==
    /\ PhysicalDone
    /\ \E iface \in PhysicalInputs :
          /\ Len(SubnetsOf(iface)) = 3
          /\ IsStatic4(iface.subnets[1])
          /\ IsStatic6(iface.subnets[2])
          /\ IsStatic4(iface.subnets[3])
          /\ Holds(CfgOf(iface).conf, k_IPADDR \o <<"1">>, iface.subnets[3].address)

\* The indexes n with a stored ADDRESS<n>
StoredIndexes(routes) ==
    {n \in 1..(routes.last_idx - 1) : HasKey(routes.conf, k_ADDRESS \o DecStr(n))}

StoredAddress(routes, n) == GetItem(routes.conf, k_ADDRESS \o DecStr(n)).s

StoredGateway(routes, n) == GetItem(routes.conf, k_GATEWAY \o DecStr(n)).s

StoredNetmask(routes, n) == GetItem(routes.conf, k_NETMASK \o DecStr(n)).s

StoredIndexes4(routes) ==
    {n \in StoredIndexes(routes) : ~Contains(StoredAddress(routes, n), <<":">>)}

StoredIndexes6(routes) ==
    {n \in StoredIndexes(routes) : Contains(StoredAddress(routes, n), <<":">>)}

\* The indexes of S in ascending order of their keys ADDRESS<n>
InKeyOrder(S) ==
    CHOOSE seq \in [1..Cardinality(S) -> S] :
        \A i, j \in 1..Cardinality(S) :
            i < j => StrLess(k_ADDRESS \o DecStr(seq[i]), k_ADDRESS \o DecStr(seq[j]))

\* The triples ADDRESS<i>/GATEWAY<i>/NETMASK<i>, i = from, from + 1, ...,
\* of the stored indexes seq
RECURSIVE Triples(_, _, _)
Triples(routes, seq, from) ==
    IF seq = <<>> THEN <<>>
    ELSE k_ADDRESS \o DecStr(from) \o s_eq \o StoredAddress(routes, seq[1]) \o s_nl
         \o k_GATEWAY \o DecStr(from) \o s_eq \o StoredGateway(routes, seq[1]) \o s_nl
         \o k_NETMASK \o DecStr(from) \o s_eq \o StoredNetmask(routes, seq[1]) \o s_nl
         \o Triples(routes, Tail(seq), from + 1)

RECURSIVE ViaLines(_, _)
ViaLines(routes, seq) ==
    IF seq = <<>> THEN <<>>
    ELSE StoredAddress(routes, seq[1]) \o s_slash \o StoredNetmask(routes, seq[1])
         \o s_via \o StoredGateway(routes, seq[1]) \o s_nl
         \o ViaLines(routes, Tail(seq))

\* C6: the two route files of a table of whole entries part its entries by
\* family: route-<name> is the header and the entries whose address has no
\* colon, as triples renumbered 0, 1, ... in key order, each triple from one
\* stored index; route6-<name> is the header and a line for each entry whose
\* address has a colon.
C6_SerializePartitionsByFamily ==
    Collected =>
        \A i \in DOMAIN iface_contents :
            LET routes == iface_contents[i][2].routes
            IN  ConfigMap__len__(routes.conf) # 0 =>
                   /\ GetItem(contents, path_ipv4(routes))
                         = _make_header(s_hash) \o s_nl
                           \o Triples(routes, InKeyOrder(StoredIndexes4(routes)), 0)
                   /\ GetItem(contents, path_ipv6(routes))
                         = _make_header(s_hash) \o s_nl
                           \o ViaLines(routes, InKeyOrder(StoredIndexes6(routes)))
                   /\ ConfigMap__len__(routes.conf) = 3 * Cardinality(StoredIndexes(routes))

\* A table with an IPv6 entry stored between two IPv4 entries
C6_Witness ==
    /\ Collected
    /\ \E i \in DOMAIN iface_contents :
          LET routes == iface_contents[i][2].routes
          IN  /\ StoredIndexes4(routes) = {1, 3}
              /\ StoredIndexes6(routes) = {2}
              /\ HasKey(contents, path_ipv4(routes))

StoredKeys(conf) == {conf[i][1] : i \in DOMAIN conf}

\* The one arrangement of the key set S in strictly ascending order
Ascending(S) ==
    CHOOSE seq \in [1..Cardinality(S) -> S] :
        \A i, j \in 1..Cardinality(S) : i < j => StrLess(seq[i], seq[j])

RECURSIVE KeyValueLines(_, _)
KeyValueLines(conf, keys) ==
    IF keys = <<>> THEN <<>>
    ELSE keys[1] \o s_eq \o _quote_value(ValueText(GetItem(conf, keys[1]))) \o s_nl
         \o KeyValueLines(conf, Tail(keys))

\* C7: whatever sets and drops led to a store, to_string gives the header
\* and one KEY=VALUE line for each stored key, the keys strictly ascending:
\* a text fixed by the stored keys and values alone.
C7_SerializeInKeyOrder ==
    /\ Cardinality(StoredKeys(store)) = ConfigMap__len__(store)
    /\ ConfigMap_to_string(store)
          = _make_header(s_hash)
            \o (IF store = <<>> THEN <<>> ELSE s_nl)
            \o KeyValueLines(store, Ascending(StoredKeys(store)))

\* A store whose keys were not set in ascending order
C7_Witness ==
    /\ pc = "idle"
    /\ ConfigMap__len__(store) >= 3
    /\ Keys(store) # Ascending(StoredKeys(store))

\* C8: in every state of the working set under the renderer's steps and the
\* calls of the kind setter, the name setter and copy, TYPE is the label of
\* the kind and DEVICE is the name; a kind setter called with a kind that
\* has no label raises ValueError and leaves the object as it was.
C8_TypeAndDeviceMirrorKindAndName ==
    /\ \A i \in DOMAIN iface_contents :
          LET cfg == iface_contents[i][2]
          IN  /\ cfg.kind \in {"ethernet", "bond", "bridge"}
              /\ Holds(cfg.conf, k_TYPE,
                       StrV(CASE cfg.kind = "ethernet" -> s_Ethernet
                              [] cfg.kind = "bond" -> s_Bond
                              [] cfg.kind = "bridge" -> s_Bridge))
              /\ Holds(cfg.conf, k_DEVICE, StrV(cfg.iface_name))
    /\ call.op = "setKind" =>
          IF call.arg \in {"ethernet", "bond", "bridge"}
          THEN call.err = "none" /\ GetItem(iface_contents, call.key).kind = call.arg
          ELSE call.err = "ValueError" /\ GetItem(iface_contents, call.key) = call.before

\* A rejected kind after a renaming
C8_Witness ==
    /\ call.op = "setKind"
    /\ call.arg = "vlan"
    /\ call.err = "ValueError"
    /\ call.count = 2
    /\ GetItem(iface_contents, call.key).iface_name # call.key

BondDone == pc \in {"vlan", "bridge", "collect", "write", "netrules", "done"}

BondMembers == {iface \in InputInterfaces : iface.type = "bond"}

\* C9: after the bond pass every bond member has MASTER=<its bond-master>
\* and SLAVE=true, and the master of that name, with each of its children,
\* has BONDING_MASTER=true; when the bond pass returns the master's kind is
\* bond and its TYPE Bond; the VLAN pass, the bridge pass and the collection
\* leave MASTER, SLAVE and BONDING_MASTER as they are.
C9_BondMembersAndMasters ==
    BondDone =>
        \A iface \in BondMembers :
            /\ "bond-master" \in DOMAIN iface
            /\ Holds(CfgOf(iface).conf, k_MASTER, iface["bond-master"])
            /\ Holds(CfgOf(iface).conf, k_SLAVE, BoolV(TRUE))
            /\ HasKey(iface_contents, iface["bond-master"].s)
            /\ LET master_cfg == GetItem(iface_contents, iface["bond-master"].s)
                   marked == <<master_cfg>> \o master_cfg.children
               IN  \A i \in DOMAIN marked :
                      /\ Holds(marked[i].conf, k_BONDING_MASTER, BoolV(TRUE))
                      /\ pc = "vlan" => /\ marked[i].kind = "bond"
                                        /\ Holds(marked[i].conf, k_TYPE, StrV(s_Bond))

\* A bond master that the bridge pass has since made a bridge
C9_Witness ==
    /\ pc = "done"
    /\ \E iface \in BondMembers :
          LET master_cfg == GetItem(iface_contents, iface["bond-master"].s)
          IN  /\ master_cfg.kind = "bridge"
              /\ Holds(master_cfg.conf, k_BONDING_MASTER, BoolV(TRUE))
              /\ Holds(CfgOf(iface).conf, k_SLAVE, BoolV(TRUE))

Same(result) == result = [err |-> "none", cfgs |-> iface_contents]

Rerendered(e) ==
    \/ ~IsDefault(e.route)
    \/ /\ "gateway" \in DOMAIN e.route
       /\ Truthy(DictGet(e.subnet, "ipv4")) \/ Truthy(DictGet(e.subnet, "ipv6"))

Owned(h, ref) ==
    {h[ref]._conf, h[ref].children, h[ref].routes, h[h[ref].routes]._conf}
    \cup {h[h[ref].children].elems[i] : i \in DOMAIN h[h[ref].children].elems}

\* C11: a copy has storage of its own: the copy and the original share no
\* dict, no children list, no child and no route table, whatever
\* copy_children and copy_routes were, and a call made through one of the
\* two (a set or a drop on its fields, on a child's fields, an append to its
\* children, a rendering of routes into its route table) leaves what the
\* other shows as it was.
C11_CopySharesNothing ==
    refs.copy # 0 =>
        /\ Owned(heap, refs.copy) \cap Owned(heap, refs.original) = {}
        /\ call.op = "mutate" /\ call.before # <<>> =>
              View(heap, refs[Other(call.arg)]) = call.before

\* C12: every route table the route pass builds can be serialized: each
\* stored ADDRESS<n> has its GATEWAY<n> and NETMASK<n>, also for a route
\* accepted without a 'gateway' or a 'netmask', so that to_string("ipv4")
\* and to_string("ipv6") return and the render is not ended by a KeyError.
C12_StoredRoutesSerializable ==
    /\ PhysicalDone =>
          \A i \in DOMAIN iface_contents :
              LET routes == iface_contents[i][2].routes
              IN  /\ \A n \in StoredIndexes(routes) :
                        /\ HasKey(routes.conf, k_GATEWAY \o DecStr(n))
                        /\ HasKey(routes.conf, k_NETMASK \o DecStr(n))
                  /\ Route_to_string(routes, "ipv4").err = "none"
                  /\ Route_to_string(routes, "ipv6").err = "none"
    /\ error # "KeyError"

NonDefaults4(iface) ==
    SelectSeq(NonDefaults(iface), LAMBDA e : ~Contains(e.route.network.s, <<":">>))

\* The triples of the routes rs numbered from, from + 1, ... in the order
\* of rs
RECURSIVE TriplesInOrder(_, _)
TriplesInOrder(rs, from) ==
    IF rs = <<>> THEN <<>>
    ELSE k_ADDRESS \o DecStr(from) \o s_eq \o rs[1].route.network.s \o s_nl
         \o k_GATEWAY \o DecStr(from) \o s_eq \o rs[1].route.gateway.s \o s_nl
         \o k_NETMASK \o DecStr(from) \o s_eq \o rs[1].route.netmask.s \o s_nl
         \o TriplesInOrder(Tail(rs), from + 1)

\* C13: the IPv4 route file keeps the order in which the routes were added:
\* the k-th non-default IPv4 route of the interface (k = 0, 1, ...) is
\* written as ADDRESS<k>/GATEWAY<k>/NETMASK<k>, for any number of routes.
C13_RouteFileKeepsOrder ==
    Collected =>
        \A iface \in PhysicalInputs :
            HasKey(contents, RouteFile4(iface.name)) =>
                GetItem(contents, RouteFile4(iface.name))
                   = _make_header(s_hash) \o s_nl \o TriplesInOrder(NonDefaults4(iface), 0)

=======================================================================
